---- MODULE Spec2Model ----
(***************************************************************************)
(* Authoritative game server (WebSocket FPS): player map, projectile list, *)
(* connection map, reload / respawn timers and the 30 Hz game loop.        *)
(*                                                                         *)
(* Time is in milliseconds (Date.now()).  Coordinates are fixed point:     *)
(* 1 = 0.1 world units, so the hitbox radius 0.6 is 6 and eye level 1.6 is *)
(* 16.  Every event-loop callback is one atomic action.                    *)
(***************************************************************************)
EXTENDS Integers, Sequences, FiniteSets, TLC

\* ---------------------------------------------------------------- bounds
MaxPlayers == 2     \* player ids ever allocated
MaxShots   == 2     \* value projectileIdCounter may reach
MaxTime    == 4000  \* the clock stops advancing here in a world that starts with players
JoinTime   == 1000  \* and here in the world that starts empty
MaxCommands == 2    \* client messages received over a run
DuelTime   == 1000  \* the clock stops advancing here in the world that starts with a shot in flight
ShortGap   == 40    \* a tick that comes sooner than the cap on deltaTime

\* ------------------------------------------------------------- constants
START_HEALTH         == 100
START_AMMO           == 100
START_MAGAZINE       == 30
RELOAD_DURATION      == 2000
PLAYER_HITBOX_RADIUS == 6      \* 0.6
PLAYER_HEIGHT        == 18     \* 1.8
PROJECTILE_SPEED     == 50
PROJECTILE_DAMAGE    == 10
PROJECTILE_LIFETIME  == 2000
RESPAWN_TIME         == 3000
INACTIVITY_TIMEOUT   == 30000
MAX_DELTA_MS         == 100    \* deltaTime cap 0.1 s
VERTICAL_MARGIN      == 2      \* 0.2
FLOOR_Y              == -50    \* -5
EYE_LEVEL            == 16     \* 1.6

\* The clock advances in quanta of half a reload (1000 ms): a divisor of the
\* reload and respawn delays.
Quantum == RELOAD_DURATION \div 2

Ids == 1..MaxPlayers

\* proj_<n>: the values projectileIdCounter takes
ProjectileIds == 0..(MaxShots - 1)

VARIABLES
    now,                  \* Date.now()
    players,              \* players: id -> player record (domain = ids present)
    projectiles,          \* projectiles: sequence of projectile records
    projectileIdCounter,  \* projectileIdCounter
    clientMap,            \* clientMap: ids that map to a WebSocket
    sock,                 \* per id, readyState of its WebSocket ("NONE" before the connection)
    timers,               \* pending setTimeout callbacks
    lastTickTime,         \* lastTickTime
    nextId,               \* ids are fresh: the next id generateUniqueId returns
    sent,                 \* messages handed to the sockets by the last callback, in order
    lastCommandTime,      \* history: per id, time of its connection or last command
    leftCount,            \* history: per id, number of player_left broadcasts for it
    received,             \* history: number of client messages received so far
    horizon,              \* where the clock stops advancing (fixed at the start)
    indexed,              \* ids whose generated string is an array index ("9", not "k3f9")
    lastOp,               \* history: the callback that ran last
    events,               \* history: hitEvents, deathEvents, expiredProjectiles of the tick that just ran
    removedCount          \* history: per projectile id, times it was reported removed

vars == <<now, players, projectiles, projectileIdCounter, clientMap, sock, timers,
          lastTickTime, nextId, sent, lastCommandTime, leftCount, received, horizon, indexed, lastOp,
          events, removedCount>>

Op(kind, id) == [kind |-> kind, id |-> id]

Min(a, b) == IF a < b THEN a ELSE b
Abs(a) == IF a < 0 THEN -a ELSE a

\* A set of ids in the order in which they were allocated (ids are allocated
\* in increasing order): the order of clientMap.forEach.
RECURSIVE SetToSeq(_)
SetToSeq(S) ==
    IF S = {} THEN <<>>
    ELSE LET m == CHOOSE a \in S : \A b \in S : a <= b
         IN <<m>> \o SetToSeq(S \ {m})

\* the keys of an object in the order in which they were added
InsertionOrder(pls) == SetToSeq(DOMAIN pls)

\* The order of for (const id in players): keys that are array indices come
\* first, then the other keys in the order in which they were added.  (At
\* most one id of a run is an array index.)
PlayerOrder(pls) == SetToSeq(DOMAIN pls \cap indexed) \o SetToSeq(DOMAIN pls \ indexed)

NameOf(id) == <<"Player", id>>

\* ------------------------------------------------------------ JSON inputs
\* A JSON number field: typeof and finiteness are what validation reads.
Num(n) == [t |-> "number", fin |-> TRUE, v |-> n]
\* fin = FALSE on a number: NaN or an infinity (JSON 1e999 parses to Infinity).

Vec(a, b, c) == [kind |-> "object", x |-> Num(a), y |-> Num(b), z |-> Num(c)]
NoVec(k) == [kind |-> k, x |-> Num(0), y |-> Num(0), z |-> Num(0)]

P0 == Vec(0, EYE_LEVEL, 0)
P1 == Vec(50, EYE_LEVEL, 0)
Positions == {P0, P1}
Directions == {Vec(1, 0, 0), Vec(0, -1, 0)}
Spawns == {P0}      \* Math.random() * 10 - 5, one draw
BadVectors == { NoVec("undefined"), NoVec("null"),
                [P0 EXCEPT !.x = [t |-> "number", fin |-> FALSE, v |-> 0]],
                [P0 EXCEPT !.z = [t |-> "string", fin |-> FALSE, v |-> 0]] }

Rot(a, b) == [kind |-> "object", pitch |-> Num(a), yaw |-> Num(b)]
Rotations == {Rot(1, 2)}
BadRotations == { [kind |-> "null", pitch |-> Num(0), yaw |-> Num(0)],
                  [Rot(1, 2) EXCEPT !.yaw = [t |-> "number", fin |-> FALSE, v |-> 0]] }

FiniteNumber(f) == f.t = "number" /\ f.fin

isValidPosition(pos) ==
    pos.kind = "object" /\ FiniteNumber(pos.x) /\ FiniteNumber(pos.y) /\ FiniteNumber(pos.z)

\* Faulty variant: any non-null object passes.
isValidRotationAnyObject(rot) == rot.kind = "object"

isValidRotation(rot) ==
    rot.kind = "object" /\ FiniteNumber(rot.pitch) /\ FiniteNumber(rot.yaw)

isValidDirection(dir) ==
    dir.kind = "object" /\ FiniteNumber(dir.x) /\ FiniteNumber(dir.y) /\ FiniteNumber(dir.z)

\* ------------------------------------------------------------- messages
\* hitEvents, deathEvents, expiredProjectiles: empty outside a tick
NoEvents == [hits |-> <<>>, deaths |-> <<>>, removed |-> <<>>, failed |-> {}]

\* occurrences of a value in a list
CountOf(list, v) == Cardinality({ i \in 1..Len(list) : list[i] = v })

Msg(to, type, payload) == [to |-> to, type |-> type, payload |-> payload]

\* Faulty variant: the first send() that throws ends the forEach.
RECURSIVE BroadcastToAbortOnThrow(_, _, _, _, _, _)
BroadcastToAbortOnThrow(order, socks, type, payload, exclude, throwing) ==
    IF order = <<>> THEN <<>>
    ELSE LET c == Head(order)
             rest == BroadcastToAbortOnThrow(Tail(order), socks, type, payload, exclude,
                                             throwing)
         IN IF c \notin exclude /\ socks[c] = "OPEN"
            THEN IF c \in throwing THEN <<>> ELSE <<Msg(c, type, payload)>> \o rest
            ELSE rest

\* broadcast(message, senderWs): every socket of clientMap, in map order, that
\* is not the sender and is OPEN.  exclude is {} for senderWs = null.  A send()
\* that throws (c in throwing) delivers nothing; the catch logs it and the
\* forEach goes on.
RECURSIVE BroadcastTo(_, _, _, _, _, _)
BroadcastTo(order, socks, type, payload, exclude, throwing) ==
    IF order = <<>> THEN <<>>
    ELSE LET c == Head(order)
             rest == BroadcastTo(Tail(order), socks, type, payload, exclude, throwing)
         IN IF c \notin exclude /\ socks[c] = "OPEN"
            THEN IF c \in throwing THEN rest ELSE <<Msg(c, type, payload)>> \o rest
            ELSE rest

\* a broadcast during which the sends to the sockets in throwing fail
broadcastThrowing(cm, socks, type, payload, exclude, throwing) ==
    BroadcastTo(SetToSeq(cm), socks, type, payload, exclude, throwing)

\* a broadcast all of whose sends succeed
broadcast(cm, socks, type, payload, exclude) ==
    broadcastThrowing(cm, socks, type, payload, exclude, {})

\* ws.send(...) on the handler's own socket, whatever its readyState
SendDirect(id, type, payload) == <<Msg(id, type, payload)>>

\* if (playerWs && playerWs.readyState === WebSocket.OPEN) playerWs.send(...)
SendIfOpen(id, cm, socks, type, payload) ==
    IF id \in cm /\ socks[id] = "OPEN" THEN <<Msg(id, type, payload)>> ELSE <<>>

\* ----------------------------------------------------------------- Init
NewProjectile(counter, ownerId, t, startPos, direction) ==
    [id |-> counter, ownerId |-> ownerId, spawnTime |-> t,
     x |-> startPos.x.v, y |-> startPos.y.v, z |-> startPos.z.v,
     vx |-> direction.x.v * PROJECTILE_SPEED,
     vy |-> direction.y.v * PROJECTILE_SPEED,
     vz |-> direction.z.v * PROJECTILE_SPEED]

\* Faulty variant: the new player starts with an empty magazine.
NewPlayerEmptyMagazine(id, spawn, t) ==
    [id |-> id, x |-> spawn.x.v, y |-> EYE_LEVEL, z |-> spawn.z.v, pitch |-> 0, yaw |-> 0,
     health |-> START_HEALTH, ammo |-> START_AMMO, magazine |-> 0,
     kills |-> 0, deaths |-> 0, reloading |-> FALSE, reloadStartTime |-> 0,
     lastUpdateTime |-> t]

NewPlayer(id, spawn, t) ==
    [id |-> id, x |-> spawn.x.v, y |-> EYE_LEVEL, z |-> spawn.z.v, pitch |-> 0, yaw |-> 0,
     health |-> START_HEALTH, ammo |-> START_AMMO, magazine |-> START_MAGAZINE,
     kills |-> 0, deaths |-> 0, reloading |-> FALSE, reloadStartTime |-> 0,
     lastUpdateTime |-> t]

\* States of a player the server reaches with nothing pending (no timer, no
\* projectile), on top of the fresh one of a connection: hit nine times, 75 rounds fired over
\* two reloads, silent for the last 27 s; all 130 rounds but one fired.
Profile(h, m, a, r, idle) ==
    [health |-> h, magazine |-> m, ammo |-> a, reloadStartTime |-> r, idle |-> idle]

Wounded == Profile(10, 5, 50, 0 - 2 * RESPAWN_TIME, 3 * Quantum - INACTIVITY_TIMEOUT)
Spent   == Profile(START_HEALTH, 1, 0, 0 - 2 * RESPAWN_TIME, 0)
\* hit nine times as well, and its last round but one just fired
Cornered == Profile(10, 1, 0, 0 - 2 * RESPAWN_TIME, 0)

\* A starting world: the first player at P0 and the others at P1, the shot in
\* flight (if any) fired by the first player from P0, no id an array index.
WorldOf(profiles, inFlight, end) ==
    [players |-> profiles, inFlight |-> inFlight, horizon |-> end,
     owner |-> 1, from |-> P0, together |-> FALSE, indexed |-> {}]

\* Two players standing together at P1 with a shot about to reach them whose
\* owner (id 0) has left; ix: the ids that are array indices.
Crowd(ix) ==
    [WorldOf(<<Spent, Wounded>>, 1, DuelTime) EXCEPT
        !.owner = 0, !.together = TRUE, !.indexed = ix]

\* The players present when the model starts, in join order, and how long the
\* world is followed: the server as constructed, a fight under way, and a duel
\* with the first player's shot at the second in flight (inFlight: 1), and the
\* crowd, with no id or the second player's id an array index.
InitialWorlds ==
    { WorldOf(<<>>, 0, JoinTime),
      WorldOf(<<Spent, Wounded>>, 0, MaxTime),
      WorldOf(<<Cornered, Wounded>>, 1, DuelTime) }
    \cup { Crowd(ix) : ix \in {{}, {2}} }

InitialPosition(world, i) == IF i = 1 /\ ~world.together THEN P0 ELSE P1

InitFrom(worlds) ==
    /\ now = 0
    /\ \E world \in worlds :
         LET prof == world.players
             n == Len(prof)
         IN /\ n <= MaxPlayers
            /\ horizon = world.horizon
            /\ indexed = world.indexed
            /\ nextId = n + 1
            /\ clientMap = 1..n
            /\ sock = [i \in Ids |-> IF i <= n THEN "OPEN" ELSE "NONE"]
            /\ players = [i \in 1..n |->
                             [NewPlayer(i, InitialPosition(world, i), prof[i].idle) EXCEPT
                                 !.health = prof[i].health,
                                 !.magazine = prof[i].magazine,
                                 !.ammo = prof[i].ammo,
                                 !.reloadStartTime = prof[i].reloadStartTime]]
            /\ lastCommandTime = [i \in Ids |-> IF i <= n THEN prof[i].idle ELSE 0]
            /\ projectileIdCounter = world.inFlight
            /\ projectiles = [i \in 1..world.inFlight |->
                                 NewProjectile(i - 1, world.owner, 0, world.from, Vec(1, 0, 0))]
    /\ timers = {}
    /\ lastTickTime = 0
    /\ sent = <<>>
    /\ leftCount = [i \in Ids |-> 0]
    /\ received = 0
    /\ lastOp = Op("start", 0)
    /\ events = NoEvents
    /\ removedCount = [i \in ProjectileIds |-> 0]

Init == InitFrom(InitialWorlds)

\* ------------------------------------------------------------ connection
\* wss.on('connection')
Connect(spawn) ==
    /\ nextId <= MaxPlayers
    /\ LET id == nextId
           pl == NewPlayer(id, spawn, now)
           pls == [i \in DOMAIN players \cup {id} |-> IF i = id THEN pl ELSE players[i]]
           socks == [sock EXCEPT ![id] = "OPEN"]
           cm == clientMap \cup {id}
       IN /\ players' = pls
          /\ clientMap' = cm
          /\ sock' = socks
          /\ nextId' = id + 1
          /\ sent' = SendDirect(id, "init",
                            [id |-> id, players |-> pls, projectiles |-> projectiles])
                     \o broadcast(cm, socks, "player_joined", pl, {id})
          /\ lastCommandTime' = [lastCommandTime EXCEPT ![id] = now]
          /\ lastOp' = Op("connection", id)
          /\ \E isIndex \in BOOLEAN :
                /\ isIndex => indexed = {}
                /\ indexed' = IF isIndex THEN indexed \cup {id} ELSE indexed
    /\ UNCHANGED <<now, projectiles, projectileIdCounter, timers, lastTickTime, leftCount,
                   received, horizon, removedCount>>
    /\ events' = NoEvents

\* -------------------------------------------------------------- commands
NoPayload == [kind |-> "undefined", position |-> NoVec("undefined"),
              rotation |-> [kind |-> "undefined", pitch |-> Num(0), yaw |-> Num(0)],
              direction |-> NoVec("undefined"), startPos |-> NoVec("undefined")]

Command(type, payload) == [parses |-> TRUE, type |-> type, payload |-> payload]

Update(pos, rot) ==
    Command("player_update", [NoPayload EXCEPT !.kind = "object", !.position = pos, !.rotation = rot])

UpdateCommands ==
    { Update(P1, rot) : rot \in Rotations \cup BadRotations }
    \cup { Update(pos, Rot(1, 2)) : pos \in BadVectors }
    \cup { Command("player_update", NoPayload) }

ShootAt(dir, sp) ==
    Command("shoot", [NoPayload EXCEPT !.kind = "object", !.direction = dir, !.startPos = sp])

ShootCommands ==
    { ShootAt(dir, sp) : dir \in Directions, sp \in Positions }
    \cup { ShootAt(dir, P0) : dir \in BadVectors }
    \cup { ShootAt(Vec(1, 0, 0), sp) : sp \in BadVectors }
    \cup { Command("shoot", NoPayload) }

ReloadCommands == { Command("request_reload", NoPayload) }

OtherCommands == { Command("chat_message", NoPayload),
                   [parses |-> FALSE, type |-> "none", payload |-> NoPayload] }

Commands == UpdateCommands \cup ShootCommands \cup ReloadCommands \cup OtherCommands

\* What a command handler returns: the player record, the projectile list and
\* counter, the timers it scheduled and the messages it sent.
Outcome(pl, projs, counter, tms, out) ==
    [player |-> pl, projectiles |-> projs, counter |-> counter, timers |-> tms, out |-> out]

\* data.payload.<field> throws a TypeError when data.payload is undefined; the
\* handler's catch logs it and the handler ends.
PayloadThrows(data) == data.payload.kind # "object"

\* case 'player_update'
HandleUpdate(pl, data, projs, counter) ==
    IF PayloadThrows(data) THEN Outcome(pl, projs, counter, {}, <<>>)
    ELSE IF isValidPosition(data.payload.position) /\ isValidRotation(data.payload.rotation)
    THEN Outcome([pl EXCEPT !.x = data.payload.position.x.v,
                            !.y = data.payload.position.y.v,
                            !.z = data.payload.position.z.v,
                            !.pitch = data.payload.rotation.pitch.v,
                            !.yaw = data.payload.rotation.yaw.v],
                 projs, counter, {}, <<>>)
    ELSE Outcome(pl, projs, counter, {}, <<>>)

\* Faulty variants of the shoot guard: the magazine test, or the reloading
\* test, left out.
ShootAllowedAnyMagazine(pl) == pl.health > 0 /\ ~pl.reloading
ShootAllowedWhileReloading(pl) == pl.health > 0 /\ pl.magazine > 0

\* if (player.health > 0 && !player.reloading && player.magazine > 0)
ShootAllowed(pl) == pl.health > 0 /\ ~pl.reloading /\ pl.magazine > 0


\* Faulty variant: the ammo confirmation goes to every session.
ShootMessagesAmmoToAll(pl, np, cm, socks) ==
    broadcast(cm, socks, "projectile_created", np, {})
    \o broadcast(cm, socks, "ammo_update", [magazine |-> pl.magazine, ammo |-> pl.ammo], {})

\* broadcast({ type: 'projectile_created', ... }); ws.send(... 'ammo_update' ...)
ShootMessages(pl, np, cm, socks) ==
    broadcast(cm, socks, "projectile_created", np, {})
    \o SendDirect(pl.id, "ammo_update", [magazine |-> pl.magazine, ammo |-> pl.ammo])

\* case 'shoot': the magazine and the id counter are consumed before the
\* payload is read and validated.
HandleShoot(pl, data, projs, counter, t, cm, socks) ==
    IF ~ShootAllowed(pl) THEN Outcome(pl, projs, counter, {}, <<>>)
    ELSE LET pl1 == [pl EXCEPT !.magazine = pl.magazine - 1]
             counter1 == counter + 1
         IN IF PayloadThrows(data) THEN Outcome(pl1, projs, counter1, {}, <<>>)
            ELSE IF ~isValidPosition(data.payload.startPos) \/ ~isValidDirection(data.payload.direction)
            THEN Outcome(pl1, projs, counter1, {}, <<>>)
            ELSE LET np == NewProjectile(counter, pl.id, t, data.payload.startPos, data.payload.direction)
                 IN Outcome(pl1, Append(projs, np), counter1, {}, ShootMessages(pl1, np, cm, socks))

\* Faulty variant of the reload guard: the reserve test left out.
ReloadAllowedWithoutReserve(pl) ==
    pl.health > 0 /\ ~pl.reloading /\ pl.magazine < START_MAGAZINE

\* if (player.health > 0 && !player.reloading && player.magazine < START_MAGAZINE && player.ammo > 0)
ReloadAllowed(pl) ==
    pl.health > 0 /\ ~pl.reloading /\ pl.magazine < START_MAGAZINE /\ pl.ammo > 0

\* A pending setTimeout callback.  start is the reloadStartTime the request
\* wrote when it scheduled the callback (what identifies the request).
Timer(kind, id, due, start) == [kind |-> kind, id |-> id, due |-> due, start |-> start]

\* case 'request_reload'
HandleReload(pl, projs, counter, t) ==
    IF ReloadAllowed(pl)
    THEN Outcome([pl EXCEPT !.reloading = TRUE, !.reloadStartTime = t], projs, counter,
                 {Timer("reload", pl.id, t + RELOAD_DURATION, t)}, <<>>)
    ELSE Outcome(pl, projs, counter, {}, <<>>)

\* if (player.health <= 0 && !['request_respawn', 'chat_message'].includes(data.type)) return;
\* Faulty variant: no command is filtered.
DeadFilterNever(pl, data) == FALSE

DeadFilter(pl, data) == pl.health <= 0 /\ data.type \notin {"request_respawn", "chat_message"}

Dispatch(pl, data, projs, counter, t, cm, socks) ==
    IF DeadFilter(pl, data) THEN Outcome(pl, projs, counter, {}, <<>>)
    ELSE CASE data.type = "player_update" -> HandleUpdate(pl, data, projs, counter)
           [] data.type = "shoot" -> HandleShoot(pl, data, projs, counter, t, cm, socks)
           [] data.type = "request_reload" -> HandleReload(pl, projs, counter, t)
           [] OTHER -> Outcome(pl, projs, counter, {}, <<>>)

\* ws.on('message'): a socket delivers messages until its close event.
OnMessage(p, data) ==
    /\ sock[p] \in {"OPEN", "CLOSING"}
    /\ received < MaxCommands
    /\ received' = received + 1
    /\ lastOp' = Op(IF data.parses THEN data.type ELSE "unparsable", p)
    /\ (data.type = "shoot" /\ p \in DOMAIN players /\ ShootAllowed(players[p]))
          => projectileIdCounter < MaxShots
    /\ IF ~data.parses \/ p \notin DOMAIN players
       THEN /\ sent' = <<>>
            /\ UNCHANGED <<players, projectiles, projectileIdCounter, timers, lastCommandTime>>
       ELSE LET pl == [players[p] EXCEPT !.lastUpdateTime = now]
                r == Dispatch(pl, data, projectiles, projectileIdCounter, now, clientMap, sock)
            IN /\ players' = [players EXCEPT ![p] = r.player]
               /\ projectiles' = r.projectiles
               /\ projectileIdCounter' = r.counter
               /\ timers' = timers \cup r.timers
               /\ sent' = r.out
               /\ lastCommandTime' = [lastCommandTime EXCEPT ![p] = now]
    /\ UNCHANGED <<now, clientMap, sock, lastTickTime, nextId, leftCount, horizon, indexed,
                   removedCount>>
    /\ events' = NoEvents

\* ---------------------------------------------------------------- timers
\* Node runs setTimeout callbacks in order of expiry, never before it.
Due(t) == t \in timers /\ t.due <= now /\ \A u \in timers : t.due <= u.due

\* The callback's closure holds `player`, the object the request handler
\* fetched.  players[playerId] is never re-assigned while the id is present
\* (respawn mutates the object in place), so when currentPlayer exists the
\* closure's player is that same object.
CapturedPlayer(pls, t) == pls[t.id]

\* Faulty variant of the callback's guard: it never passes.
ReloadNeverValid(pls, t) == FALSE

\* Faulty variant of the callback's guard: only the player's existence checked.
ReloadValidIfPresent(pls, t) == t.id \in DOMAIN pls

\* if (currentPlayer && currentPlayer.reloading &&
\*     currentPlayer.reloadStartTime === player.reloadStartTime)
ReloadStillValid(pls, t) ==
    /\ t.id \in DOMAIN pls
    /\ pls[t.id].reloading
    /\ pls[t.id].reloadStartTime = CapturedPlayer(pls, t).reloadStartTime

AmmoToMove(pl) == Min(START_MAGAZINE - pl.magazine, pl.ammo)

\* Faulty variant: the magazine is filled and the reserve is not debited.
CompleteReloadKeepsReserve(pl) ==
    [pl EXCEPT !.magazine = pl.magazine + AmmoToMove(pl), !.reloading = FALSE]

CompleteReload(pl) ==
    [pl EXCEPT !.magazine = pl.magazine + AmmoToMove(pl),
               !.ammo = pl.ammo - AmmoToMove(pl),
               !.reloading = FALSE]

\* the setTimeout callback of request_reload
OnReloadTimer(t) ==
    /\ Due(t)
    /\ t.kind = "reload"
    /\ timers' = timers \ {t}
    /\ lastOp' = Op("reload_timer", t.id)
    /\ IF ReloadStillValid(players, t)
       THEN LET pl == CompleteReload(players[t.id])
            IN /\ players' = [players EXCEPT ![t.id] = pl]
               /\ sent' = SendIfOpen(t.id, clientMap, sock, "ammo_update",
                                      [magazine |-> pl.magazine, ammo |-> pl.ammo])
       ELSE /\ sent' = <<>>
            /\ UNCHANGED players
    /\ UNCHANGED <<now, projectiles, projectileIdCounter, clientMap, sock, lastTickTime,
                   nextId, lastCommandTime, leftCount, received, horizon, indexed, removedCount>>
    /\ events' = NoEvents

\* Faulty variant: the respawn callback never applies.
RespawnNever(pls, id) == FALSE

\* if (player) { if (player.health <= 0) { ... } }
RespawnApplies(pls, id) == id \in DOMAIN pls /\ pls[id].health <= 0

\* Faulty variant: a respawn that leaves the activity timestamp alone.
RespawnedKeepsTimestamp(pl, spawn, t) ==
    [pl EXCEPT !.x = spawn.x.v, !.y = EYE_LEVEL, !.z = spawn.z.v,
               !.health = START_HEALTH, !.magazine = START_MAGAZINE, !.ammo = START_AMMO,
               !.reloading = FALSE]

Respawned(pl, spawn, t) ==
    [pl EXCEPT !.x = spawn.x.v, !.y = EYE_LEVEL, !.z = spawn.z.v,
               !.health = START_HEALTH, !.magazine = START_MAGAZINE, !.ammo = START_AMMO,
               !.reloading = FALSE, !.lastUpdateTime = t]

\* respawnPlayer, run by the timer a death scheduled
OnRespawnTimer(t, spawn) ==
    /\ Due(t)
    /\ t.kind = "respawn"
    /\ timers' = timers \ {t}
    /\ lastOp' = Op("respawn_timer", t.id)
    /\ IF RespawnApplies(players, t.id)
       THEN LET pl == Respawned(players[t.id], spawn, now)
            IN /\ players' = [players EXCEPT ![t.id] = pl]
               /\ sent' = broadcast(clientMap, sock, "player_respawned",
                                    [id |-> t.id, x |-> pl.x, y |-> pl.y, z |-> pl.z,
                                     health |-> pl.health, magazine |-> pl.magazine,
                                     ammo |-> pl.ammo], {})
       ELSE /\ sent' = <<>>
            /\ UNCHANGED players
    /\ UNCHANGED <<now, projectiles, projectileIdCounter, clientMap, sock, lastTickTime,
                   nextId, lastCommandTime, leftCount, received, horizon, indexed, removedCount>>
    /\ events' = NoEvents

\* ------------------------------------------------------------ disconnect
\* handleDisconnect: the world after it, as a record.
World(pls, cm, socks, out, left) ==
    [players |-> pls, clientMap |-> cm, sock |-> socks, out |-> out, leftCount |-> left]

\* Faulty variant: the connection is forgotten and the player record is kept.
handleDisconnectKeepsPlayer(w, id) ==
    LET cm == w.clientMap \ {id}
    IN World(w.players, cm, w.sock,
             w.out \o broadcast(cm, w.sock, "player_left", [id |-> id, name |-> NameOf(id)], {}),
             [w.leftCount EXCEPT ![id] = @ + 1])

\* Faulty variant: the player record is deleted and the connection mapping is
\* kept.
handleDisconnectKeepsConnection(w, id) ==
    LET name == IF id \in DOMAIN w.players THEN NameOf(id) ELSE <<"Unknown">>
        pls == [i \in DOMAIN w.players \ {id} |-> w.players[i]]
    IN World(pls, w.clientMap, w.sock,
             w.out \o broadcast(w.clientMap, w.sock, "player_left",
                                [id |-> id, name |-> name], {}),
             [w.leftCount EXCEPT ![id] = @ + 1])

handleDisconnect(w, id) ==
    LET name == IF id \in DOMAIN w.players THEN NameOf(id) ELSE <<"Unknown">>
        pls == [i \in DOMAIN w.players \ {id} |-> w.players[i]]
        cm == w.clientMap \ {id}
    IN World(pls, cm, w.sock,
             w.out \o broadcast(cm, w.sock, "player_left", [id |-> id, name |-> name], {}),
             [w.leftCount EXCEPT ![id] = @ + 1])

ApplyWorld(w) ==
    /\ players' = w.players
    /\ clientMap' = w.clientMap
    /\ sock' = w.sock
    /\ sent' = w.out
    /\ leftCount' = w.leftCount

\* ws.on('close'): the socket's close event, emitted once.
OnClose(p) ==
    /\ sock[p] \in {"OPEN", "CLOSING"}
    /\ lastOp' = Op("close", p)
    /\ ApplyWorld(handleDisconnect(
           World(players, clientMap, [sock EXCEPT ![p] = "CLOSED"], <<>>, leftCount), p))
    /\ UNCHANGED <<now, projectiles, projectileIdCounter, timers, lastTickTime, nextId,
                   lastCommandTime, received, horizon, indexed, removedCount>>
    /\ events' = NoEvents

\* ws.on('error'): the socket is closing afterwards and its close event is
\* still to come.
OnError(p) ==
    /\ sock[p] = "OPEN"
    /\ lastOp' = Op("error", p)
    /\ ApplyWorld(handleDisconnect(
           World(players, clientMap, [sock EXCEPT ![p] = "CLOSING"], <<>>, leftCount), p))
    /\ UNCHANGED <<now, projectiles, projectileIdCounter, timers, lastTickTime, nextId,
                   lastCommandTime, received, horizon, indexed, removedCount>>
    /\ events' = NoEvents

\* ------------------------------------------------------------- game loop
\* const deltaTime = Math.min((now - lastTickTime) / 1000.0, 0.1), in ms
\* Faulty variant: the elapsed time as it is.
DeltaMsUncapped(t, last) == t - last

DeltaMs(t, last) == Min(t - last, MAX_DELTA_MS)

\* p.x += p.vx * deltaTime (velocity in units/s, position in tenths of a unit)
Integrate(p, dt) ==
    [p EXCEPT !.x = p.x + (p.vx * dt) \div 100,
              !.y = p.y + (p.vy * dt) \div 100,
              !.z = p.z + (p.vz * dt) \div 100]

\* Faulty variant: the lifetime test left out.
ExpiredBelowFloorOnly(p, t) == p.y < FLOOR_Y

\* Faulty variant: the floor test left out.
ExpiredByAgeOnly(p, t) == t - p.spawnTime > PROJECTILE_LIFETIME

\* if (now - p.spawnTime > PROJECTILE_LIFETIME || p.y < -5)
Expired(p, t) == t - p.spawnTime > PROJECTILE_LIFETIME \/ p.y < FLOOR_Y

\* Faulty variant: the two bounds included.
InHitboxInclusive(p, target) ==
    LET dx == p.x - target.x
        dy == p.y - target.y
        dz == p.z - target.z
    IN /\ 2 * Abs(dy) <= PLAYER_HEIGHT + 2 * VERTICAL_MARGIN
       /\ dx * dx + dz * dz <= PLAYER_HITBOX_RADIUS * PLAYER_HITBOX_RADIUS

\* verticalHit && horizontalHit
InHitbox(p, target) ==
    LET dx == p.x - target.x
        dy == p.y - target.y
        dz == p.z - target.z
    IN /\ 2 * Abs(dy) < PLAYER_HEIGHT + 2 * VERTICAL_MARGIN
       /\ dx * dx + dz * dz < PLAYER_HITBOX_RADIUS * PLAYER_HITBOX_RADIUS

\* Faulty variants of the target scan: the owner test, or the health test,
\* left out.
EligibleIfAlive(p, pls, id) == pls[id].health > 0
EligibleIfNotOwner(p, pls, id) == p.ownerId # id

\* the targets the for..in loop does not skip
Eligible(p, pls, id) == p.ownerId # id /\ pls[id].health > 0

\* the first player, in map order, that the projectile hits; 0 if none
RECURSIVE FirstTarget(_, _, _)
FirstTarget(p, pls, order) ==
    IF order = <<>> THEN 0
    ELSE IF Eligible(p, pls, Head(order)) /\ InHitbox(p, pls[Head(order)])
         THEN Head(order)
         ELSE FirstTarget(p, pls, Tail(order))

\* What the filter callback has accumulated so far in a tick.
Physics(pls, kept, hits, deaths, removed, tms) ==
    [players |-> pls, kept |-> kept, hits |-> hits, deaths |-> deaths,
     removed |-> removed, timers |-> tms]

\* Faulty variant: the owner's name is built from its id, present or not.
AttackerNameFromId(pls, ownerId) == NameOf(ownerId)

AttackerName(pls, ownerId) == IF ownerId \in DOMAIN pls THEN NameOf(ownerId) ELSE <<"Unknown">>

\* Faulty variant: a hit that takes nothing.
Undamaged(health) == health

\* Faulty variant: a damage that does not divide the starting health.
DamagedByFifteen(health) == health - 15

\* target.health -= PROJECTILE_DAMAGE
Damaged(health) == health - PROJECTILE_DAMAGE

\* Faulty variant: a death that empties the victim's reserve.
KilledLosesReserve(pl) ==
    [pl EXCEPT !.health = 0, !.deaths = pl.deaths + 1, !.reloading = FALSE, !.ammo = 0]

\* Faulty variant: a death that leaves the reload flag alone.
KilledKeepsReloading(pl) == [pl EXCEPT !.health = 0, !.deaths = pl.deaths + 1]

\* target.health = 0; target.deaths++; target.reloading = false
Killed(pl) == [pl EXCEPT !.health = 0, !.deaths = pl.deaths + 1, !.reloading = FALSE]

\* Faulty variant: a dead attacker gets no kill.
AwardKillIfAlive(pls, ownerId, targetId) ==
    IF ownerId \in DOMAIN pls /\ pls[ownerId].id # targetId /\ pls[ownerId].health > 0
    THEN [pls EXCEPT ![ownerId].kills = @ + 1]
    ELSE pls

\* if (attacker && attacker.id !== targetId) attacker.kills++
AwardKill(pls, ownerId, targetId) ==
    IF ownerId \in DOMAIN pls /\ pls[ownerId].id # targetId
    THEN [pls EXCEPT ![ownerId].kills = @ + 1]
    ELSE pls

\* the body of `if (verticalHit && horizontalHit)`
ApplyHit(st, p, targetId, t) ==
    LET health1 == Damaged(st.players[targetId].health)
        hit == [targetId |-> targetId, newHealth |-> health1, attackerId |-> p.ownerId,
                attackerName |-> AttackerName(st.players, p.ownerId)]
        removed == Append(st.removed, p.id)
    IN IF health1 <= 0
       THEN LET pls1 == [st.players EXCEPT ![targetId] = Killed(@)]
                pls2 == AwardKill(pls1, p.ownerId, targetId)
                death == [victimId |-> targetId, victimName |-> NameOf(targetId),
                          attackerId |-> p.ownerId,
                          attackerName |-> AttackerName(st.players, p.ownerId)]
            IN Physics(pls2, st.kept, Append(st.hits, hit), Append(st.deaths, death), removed,
                       st.timers \cup {Timer("respawn", targetId, t + RESPAWN_TIME, 0)})
       ELSE Physics([st.players EXCEPT ![targetId].health = health1],
                    st.kept, Append(st.hits, hit), st.deaths, removed, st.timers)

\* one call of the projectiles.filter callback
StepProjectile(st, p0, t, dt) ==
    LET p == Integrate(p0, dt)
        target == FirstTarget(p, st.players, PlayerOrder(st.players))
    IN IF Expired(p, t)
       THEN [st EXCEPT !.removed = Append(@, p.id)]
       ELSE IF target # 0 THEN ApplyHit(st, p, target, t)
       ELSE [st EXCEPT !.kept = Append(@, p)]

RECURSIVE RunPhysics(_, _, _, _)
RunPhysics(st, projs, t, dt) ==
    IF projs = <<>> THEN st
    ELSE RunPhysics(StepProjectile(st, Head(projs), t, dt), Tail(projs), t, dt)

\* Faulty variant: dead players are not swept.
InactiveIfAlive(pl, t) == pl.health > 0 /\ t - pl.lastUpdateTime > INACTIVITY_TIMEOUT

\* if (now - players[playerId].lastUpdateTime > INACTIVITY_TIMEOUT)
Inactive(pl, t) == t - pl.lastUpdateTime > INACTIVITY_TIMEOUT

\* wsInstance.terminate(): the socket is destroyed; its close event follows.
Terminate(socks, id) == IF socks[id] = "CLOSED" THEN socks ELSE [socks EXCEPT ![id] = "CLOSING"]

\* the inactivity loop over the players
RECURSIVE Sweep(_, _, _)
Sweep(w, order, t) ==
    IF order = <<>> THEN w
    ELSE LET id == Head(order)
             w1 == IF id \in DOMAIN w.players /\ Inactive(w.players[id], t)
                   THEN IF id \in w.clientMap
                        THEN [w EXCEPT !.sock = Terminate(w.sock, id)]
                        ELSE handleDisconnect(w, id)
                   ELSE w
         IN Sweep(w1, Tail(order), t)

\* Faulty variant: a tick without events sends nothing.
HasEvents(st) == st.hits # <<>> \/ st.deaths # <<>> \/ st.removed # <<>>

\* if (Object.keys(players).length > 0 || hitEvents.length > 0 || ...)
HasUpdate(st) ==
    DOMAIN st.players # {} \/ st.hits # <<>> \/ st.deaths # <<>> \/ st.removed # <<>>

\* The clock: callbacks read the Date.now() of the tick they follow (ticks are
\* 33 ms apart).  A tick comes elapsed ms after the previous one: at once, or a
\* quantum later, and then no expired timer is still waiting.
TickGaps == {0, Quantum}

\* Faulty variant: the snapshot of the players taken before the physics step.
GameStatePayloadBeforePhysics(st) ==
    [players |-> players, hits |-> st.hits, deaths |-> st.deaths,
     removedProjectiles |-> st.removed]

\* gameStatePayload; JSON.stringify reads it when broadcast is called
GameStatePayload(st) ==
    [players |-> st.players, hits |-> st.hits, deaths |-> st.deaths,
     removedProjectiles |-> st.removed]

\* The sends that fail during a tick's broadcast: none, or the one to some
\* open session.
SendFailures(st) ==
    IF HasUpdate(st)
    THEN {{}} \cup { {c} : c \in { d \in clientMap : sock[d] = "OPEN" } }
    ELSE {{}}

\* the setInterval callback: physics, then the broadcast, then the sweep
GameLoop(elapsed) ==
    /\ elapsed > 0 => (now < horizon /\ \A tm \in timers : tm.due > now)
    /\ now' = now + elapsed
    /\ lastTickTime' = now + elapsed
    /\ lastOp' = Op("tick", 0)
    /\ UNCHANGED <<projectileIdCounter, nextId, lastCommandTime, received, horizon, indexed>>
    /\ \E st \in { RunPhysics(Physics(players, <<>>, <<>>, <<>>, <<>>, timers), projectiles,
                               now + elapsed, DeltaMs(now + elapsed, lastTickTime)) } :
       \E throwing \in SendFailures(st) :
       \E out \in { IF HasUpdate(st)
                     THEN broadcastThrowing(clientMap, sock, "game_state",
                                            GameStatePayload(st), {}, throwing)
                     ELSE <<>> } :
       \E w \in { Sweep(World(st.players, clientMap, sock, out, leftCount),
                          PlayerOrder(st.players), now + elapsed) } :
          /\ projectiles' = st.kept
          /\ timers' = st.timers
          /\ ApplyWorld(w)
          /\ events' = [hits |-> st.hits, deaths |-> st.deaths, removed |-> st.removed,
                         failed |-> throwing]
          /\ removedCount' = [i \in ProjectileIds |->
                                 removedCount[i] + CountOf(st.removed, i)]

Next ==
    \/ \E spawn \in Spawns : Connect(spawn)
    \/ \E p \in Ids, data \in Commands : OnMessage(p, data)
    \/ \E t \in timers : OnReloadTimer(t)
    \/ \E t \in timers, spawn \in Spawns : OnRespawnTimer(t, spawn)
    \/ \E p \in Ids : OnClose(p)
    \/ \E p \in Ids : OnError(p)
    \/ \E elapsed \in TickGaps : GameLoop(elapsed)

Spec == Init /\ [][Next]_vars

\* The runs followed for progress: the server as constructed, a player on
\* its own followed for the length of a reload, and the duel followed long
\* enough for a respawn delay to end; the clients send one of three commands.
LiveWorlds ==
    { WorldOf(<<>>, 0, JoinTime),
      WorldOf(<<Wounded>>, 0, RELOAD_DURATION),
      WorldOf(<<Cornered, Wounded>>, 1, MaxTime) }

LiveCommands ==
    { ShootAt(Vec(1, 0, 0), P0), Command("request_reload", NoPayload), Update(P1, Rot(1, 2)) }

LiveInit == InitFrom(LiveWorlds)

LiveNext ==
    \/ \E spawn \in Spawns : Connect(spawn)
    \/ \E p \in Ids, data \in LiveCommands : OnMessage(p, data)
    \/ \E t \in timers : OnReloadTimer(t)
    \/ \E t \in timers, spawn \in Spawns : OnRespawnTimer(t, spawn)
    \/ \E p \in Ids : OnClose(p)
    \/ \E p \in Ids : OnError(p)
    \/ \E elapsed \in TickGaps : GameLoop(elapsed)

\* GameLoop(Quantum) assigns every variable a value that is always defined, so
\* it is enabled exactly when its guard holds.
ClockCanAdvance == now < horizon /\ \A tm \in timers : tm.due > now

\* The guard is the enabledness: holds in every reachable state.
EnabledIsGuard == ClockCanAdvance <=> ENABLED <<GameLoop(Quantum)>>_vars

\* Weak fairness of GameLoop(Quantum), with ENABLED written out as the guard.
IntervalKeepsFiring ==
    []<>(~ClockCanAdvance) \/ []<><<GameLoop(Quantum)>>_vars

\* The runs followed for the hit test: one player at P1 and a shot, whose
\* owner has left, that the first tick carries to a point around the player:
\* up to Reach tenths of a unit before or behind it, beside it, above it or
\* below it.
Reach == 12

Offsets == (0 - Reach)..Reach

HitStarts ==
    { Vec(d, EYE_LEVEL, 0) : d \in Offsets }
    \cup { Vec(d, EYE_LEVEL, 3) : d \in Offsets }
    \cup { Vec(0, EYE_LEVEL + d, 0) : d \in Offsets }
    \cup { Vec(5, EYE_LEVEL + d, 3) : d \in Offsets }

HitWorlds ==
    { [WorldOf(<<Spent>>, 1, DuelTime) EXCEPT !.owner = 0, !.together = TRUE, !.from = f]
        : f \in HitStarts }

HitInit == InitFrom(HitWorlds)

HitNext == \E elapsed \in TickGaps : GameLoop(elapsed)

HitSpec == HitInit /\ [][HitNext]_vars

\* The runs followed for the integration step: the first player's shot in
\* flight with nobody in its way, and ticks that come at once, early, at the
\* cap, or late.
JitterGaps == {0, ShortGap, MAX_DELTA_MS, Quantum}

JitterInit == InitFrom({WorldOf(<<Spent>>, 1, MaxTime)})

JitterNext == \E elapsed \in JitterGaps : GameLoop(elapsed)

JitterSpec == JitterInit /\ [][JitterNext]_vars

\* The event loop runs every callback that is ready: the interval callback
\* keeps coming as time passes, and an expired timeout's callback is run.
LiveSpec ==
    /\ LiveInit /\ [][LiveNext]_vars
    /\ IntervalKeepsFiring
    /\ WF_vars(\E t \in timers : OnReloadTimer(t))
    /\ WF_vars(\E t \in timers, spawn \in Spawns : OnRespawnTimer(t, spawn))

\* ============================================================ properties
CountSent(out, type, to) ==
    Cardinality({ i \in 1..Len(out) : out[i].type = type /\ out[i].to = to })

\* the record apart from the activity timestamp
SameButActivity(pl1, pl0) == pl1 = [pl0 EXCEPT !.lastUpdateTime = pl1.lastUpdateTime]

InvalidShootPayload(data) ==
    \/ data.payload.kind # "object"
    \/ ~isValidPosition(data.payload.startPos)
    \/ ~isValidDirection(data.payload.direction)

\* C1: between callbacks every player has 0 <= health <= 100,
\* 0 <= magazine <= 30 and 0 <= ammo <= 100.
C1_ResourceBounds ==
    \A p \in DOMAIN players :
        /\ players[p].health \in 0..100
        /\ players[p].magazine \in 0..30
        /\ players[p].ammo \in 0..100

\* a kill has taken a player to the floor and a magazine has been emptied
C1_Witness ==
    \E p, q \in DOMAIN players :
        players[p].health = 0 /\ players[p].deaths = 1 /\ players[q].magazine = 0

\* C2: a player whose reloading flag is set has health > 0; no player is
\* reloading while dead and waiting for its respawn.
C2_ReloadingImpliesAlive ==
    \A p \in DOMAIN players : players[p].reloading => players[p].health > 0

\* a player killed in the middle of a reload: dead, its reload callback and its
\* respawn both pending
C2_Witness ==
    \E p \in DOMAIN players :
        /\ players[p].health = 0
        /\ \E t \in timers : t.kind = "reload" /\ t.id = p
        /\ \E t \in timers : t.kind = "respawn" /\ t.id = p

C4_InvalidShootDropped ==
    [][ \A p \in DOMAIN players, data \in ShootCommands :
          (/\ lastOp'.kind = "shoot"
           /\ InvalidShootPayload(data)
           /\ players[p].health > 0 /\ ~players[p].reloading /\ players[p].magazine > 0
           /\ OnMessage(p, data))
          => (/\ players'[p].magazine = players[p].magazine
              /\ projectiles' = projectiles
              /\ sent' = <<>>
              /\ sock' = sock) ]_vars

\* C5: for every player that has left, player_left was broadcast exactly once.
C5_PlayerLeftExactlyOnce ==
    \A id \in Ids :
        /\ leftCount[id] <= 1
        /\ (sock[id] # "NONE" /\ id \notin DOMAIN players) => leftCount[id] = 1

\* C6 as claimed: a session silent for more than the threshold has been
\* terminated by the sweep of the tick that set the clock.
C6_SilentSessionEvicted ==
    \A p \in DOMAIN players :
        now - lastCommandTime[p] > INACTIVITY_TIMEOUT => sock[p] # "OPEN"

\* C6 amended: a session whose activity timestamp (refreshed by each of its
\* commands and by its respawn) is older than the threshold has been terminated
\* by the sweep of the tick that set the clock, whatever the player's state.
C6_StaleTimestampEvicted ==
    \A p \in DOMAIN players :
        now - players[p].lastUpdateTime > INACTIVITY_TIMEOUT => sock[p] # "OPEN"

\* a dead player, silent for more than the threshold, terminated by the sweep
C6_Witness ==
    \E p \in DOMAIN players :
        /\ lastOp.kind = "tick"
        /\ now - players[p].lastUpdateTime > INACTIVITY_TIMEOUT
        /\ players[p].health = 0
        /\ sock[p] = "CLOSING"

\* C7: a shoot from a player with health 0, or reloading, or with an empty
\* magazine changes nothing of that player but the activity timestamp, leaves
\* the projectile list alone and sends neither projectile_created nor
\* ammo_update.
C7_RejectedShoot ==
    [][ \A p \in DOMAIN players, data \in ShootCommands :
          (/\ lastOp'.kind = "shoot"
           /\ (players[p].health = 0 \/ players[p].reloading \/ players[p].magazine = 0)
           /\ OnMessage(p, data))
          => (/\ SameButActivity(players'[p], players[p])
              /\ projectiles' = projectiles
              /\ \A i \in 1..Len(sent') :
                    sent'[i].type \notin {"projectile_created", "ammo_update"}) ]_vars

\* a reloading player has just sent a shoot
C7_Witness ==
    \E p \in DOMAIN players : lastOp = Op("shoot", p) /\ players[p].reloading

\* C8: an accepted shoot takes exactly 1 from the magazine, leaves the reserve,
\* appends exactly one projectile owned by the shooter, sends ammo_update with
\* the new counts to the shooter only, and projectile_created to every open
\* session of the connection map (the shooter's among them).
C8_AcceptedShoot ==
    [][ \A p \in DOMAIN players, data \in ShootCommands :
          (/\ lastOp'.kind = "shoot"
           /\ ~InvalidShootPayload(data)
           /\ players[p].health > 0 /\ ~players[p].reloading /\ players[p].magazine > 0
           /\ OnMessage(p, data))
          => (/\ players'[p].magazine = players[p].magazine - 1
              /\ players'[p].ammo = players[p].ammo
              /\ Len(projectiles') = Len(projectiles) + 1
              /\ SubSeq(projectiles', 1, Len(projectiles)) = projectiles
              /\ projectiles'[Len(projectiles')].ownerId = p
              /\ \A c \in Ids :
                    /\ CountSent(sent', "projectile_created", c)
                          = IF c \in clientMap /\ sock[c] = "OPEN" THEN 1 ELSE 0
                    /\ CountSent(sent', "ammo_update", c) = IF c = p THEN 1 ELSE 0
              /\ \A i \in 1..Len(sent') :
                    /\ sent'[i].type \in {"projectile_created", "ammo_update"}
                    /\ sent'[i].type = "ammo_update" =>
                          sent'[i].payload = [magazine |-> players[p].magazine - 1,
                                              ammo |-> players[p].ammo]) ]_vars

\* a player with a full magazine has shot once: 29 left, ammo_update {29, 100}
\* for it alone, projectile_created for it and for the other session
C8_Witness ==
    \E p, q \in DOMAIN players :
        /\ p # q
        /\ lastOp = Op("shoot", p)
        /\ players[p].magazine = 29 /\ players[p].ammo = 100
        /\ \E i \in 1..Len(sent) :
              sent[i] = Msg(p, "ammo_update", [magazine |-> 29, ammo |-> 100])
        /\ CountSent(sent, "projectile_created", q) = 1
        /\ CountSent(sent, "projectile_created", p) = 1

\* C9: a reload request is accepted exactly when health > 0, not reloading,
\* magazine < 30 and ammo > 0; it then sets reloading, records reloadStartTime
\* and schedules exactly one callback; otherwise it changes nothing but the
\* activity timestamp and schedules nothing.
C9_ReloadRequest ==
    [][ \A p \in DOMAIN players, data \in ReloadCommands :
          (lastOp'.kind = "request_reload" /\ OnMessage(p, data))
          => LET pl == players[p]
             IN /\ IF pl.health > 0 /\ ~pl.reloading /\ pl.magazine < 30 /\ pl.ammo > 0
                   THEN /\ players'[p] = [pl EXCEPT !.reloading = TRUE,
                                                    !.reloadStartTime = now,
                                                    !.lastUpdateTime = now]
                        /\ \E t \in timers' \ timers :
                              /\ timers' = timers \cup {t}
                              /\ t.kind = "reload" /\ t.id = p
                              /\ t.due = now + 2000
                   ELSE /\ SameButActivity(players'[p], pl)
                        /\ timers' = timers
                /\ \A q \in DOMAIN players \ {p} : players'[q] = players[q]
                /\ projectiles' = projectiles
                /\ sent' = <<>> ]_vars

\* a reload has just been accepted: flag set, start recorded, callback pending
C9_Witness ==
    \E p \in DOMAIN players :
        /\ lastOp = Op("request_reload", p)
        /\ players[p].reloading
        /\ players[p].reloadStartTime = now
        /\ \E t \in timers : t.kind = "reload" /\ t.id = p /\ t.due = now + 2000

\* C10: from acceptance to completion the magazine m and reserve a of a
\* reloading player do not change; a reload that ends without death or
\* disconnect ends with magazine m + min(30 - m, a), reserve a - min(30 - m, a)
\* and reloading false, so magazine + reserve is conserved.
C10_ReloadTransfer ==
    [][ \A p \in DOMAIN players :
          (players[p].reloading /\ p \in DOMAIN players')
          => LET m == players[p].magazine
                 a == players[p].ammo
                 moved == IF 30 - m < a THEN 30 - m ELSE a
             IN IF players'[p].reloading
                THEN players'[p].magazine = m /\ players'[p].ammo = a
                ELSE \/ players'[p].health = 0
                     \/ /\ players'[p].magazine = m + moved
                        /\ players'[p].ammo = a - moved
                        /\ players'[p].magazine + players'[p].ammo = m + a ]_vars

\* the reload requested at 5 / 50 has completed at 30 / 25
C10_Witness ==
    \E p \in DOMAIN players :
        /\ lastOp = Op("reload_timer", p)
        /\ players[p].health > 0 /\ ~players[p].reloading
        /\ players[p].magazine = 30 /\ players[p].ammo = 25

\* C11: the reload callback of a player that has disconnected since the request
\* finds no player: it changes no player, projectile or connection state,
\* sends nothing, and the player is not in the map afterwards.
C11_ReloadAfterDisconnect ==
    [][ \A t \in timers :
          (OnReloadTimer(t) /\ leftCount[t.id] > 0)
          => (/\ players' = players
              /\ projectiles' = projectiles
              /\ projectileIdCounter' = projectileIdCounter
              /\ clientMap' = clientMap
              /\ sock' = sock
              /\ sent' = <<>>
              /\ t.id \notin DOMAIN players') ]_vars

\* the callback of a reload has just fired for a player whose socket closed
\* after the request
C11_Witness ==
    \E p \in Ids :
        /\ lastOp = Op("reload_timer", p)
        /\ sock[p] = "CLOSED"
        /\ leftCount[p] > 0
        /\ p \notin DOMAIN players

\* C12: a player's reserve changes only at its reload completion, by exactly
\* what its magazine gains, and at its respawn, which sets 30 / 100; its
\* magazine grows only at those two events.
C12_AmmoFrame ==
    [][ \A p \in DOMAIN players \cap DOMAIN players' :
          LET m0 == players[p].magazine
              a0 == players[p].ammo
              m1 == players'[p].magazine
              a1 == players'[p].ammo
          IN (a1 # a0 \/ m1 > m0)
             => \/ /\ lastOp' = Op("reload_timer", p)
                   /\ m1 > m0
                   /\ a0 - a1 = m1 - m0
                \/ /\ lastOp' = Op("respawn_timer", p)
                   /\ m1 = 30 /\ a1 = 100 ]_vars

\* a player that died with 5 / 50 has respawned with 30 / 100
C12_Witness ==
    \E p \in DOMAIN players :
        /\ lastOp = Op("respawn_timer", p)
        /\ players[p].deaths = 1
        /\ players[p].magazine = 30 /\ players[p].ammo = 100

\* ------------------------------------------------- inside a tick's filter
\* The filter callback's accumulators when it reaches the i-th projectile of
\* the list, and when it has handled it, in the tick the step takes.
FilterBefore(i) ==
    RunPhysics(Physics(players, <<>>, <<>>, <<>>, <<>>, timers),
               SubSeq(projectiles, 1, i - 1), now', DeltaMs(now', lastTickTime))

FilterAfter(i) ==
    StepProjectile(FilterBefore(i), projectiles[i], now', DeltaMs(now', lastTickTime))

\* the i-th projectile where the tick moves it
Moved(i) == Integrate(projectiles[i], DeltaMs(now', lastTickTime))

\* age above the lifetime, or below the floor
PastLifetimeOrFloor(p) == now' - p.spawnTime > PROJECTILE_LIFETIME \/ p.y < FLOOR_Y

\* the live players other than the owner whose hitbox holds the projectile
TargetsOf(p, pls) ==
    { q \in DOMAIN pls : q # p.ownerId /\ pls[q].health > 0 /\ InHitbox(p, pls[q]) }

IsTick == lastOp' = Op("tick", 0)

\* C13: at a tick, a projectile that has not expired and is inside the hitbox
\* of a live player other than its owner hits one such player: that player's
\* health drops by exactly 10, not below 0, and nobody else's changes; one
\* hit event {targetId, newHealth, attackerId, attackerName} is added, whose
\* newHealth is the target's health after the hit; the projectile is reported
\* removed and is not in the list after the tick.
C13_HitRegistered ==
    [][ IsTick =>
        /\ FilterBefore(Len(projectiles) + 1).hits = events'.hits
        /\ FilterBefore(Len(projectiles) + 1).players = players'
        /\ \A i \in 1..Len(projectiles) :
             LET b == FilterBefore(i)
                 a == FilterAfter(i)
                 p == Moved(i)
             IN (~PastLifetimeOrFloor(p) /\ TargetsOf(p, b.players) # {})
                => \E q \in TargetsOf(p, b.players) :
                      LET h0 == b.players[q].health
                          h1 == IF h0 - 10 < 0 THEN 0 ELSE h0 - 10
                          hit == a.hits[Len(a.hits)]
                      IN /\ a.players[q].health = h1
                         /\ \A r \in DOMAIN b.players \ {q} :
                               a.players[r].health = b.players[r].health
                         /\ Len(a.hits) = Len(b.hits) + 1
                         /\ SubSeq(a.hits, 1, Len(b.hits)) = b.hits
                         /\ DOMAIN hit = {"targetId", "newHealth", "attackerId", "attackerName"}
                         /\ hit.targetId = q
                         /\ hit.newHealth = h1
                         /\ hit.attackerId = p.ownerId
                         /\ a.removed = Append(b.removed, p.id)
                         /\ a.kept = b.kept
                         /\ CountOf(events'.removed, p.id) = 1
                         /\ \A j \in 1..Len(projectiles') : projectiles'[j].id # p.id ]_vars

\* a tick has just registered a hit on a player at full health: health 90, the
\* hit event {target, 90, attacker}, the projectile gone
C13_Witness ==
    \E q \in DOMAIN players, o \in Ids :
        /\ lastOp = Op("tick", 0)
        /\ players[q].health = 90
        /\ Len(events.hits) = 1
        /\ events.hits[1].targetId = q
        /\ events.hits[1].newHealth = 90
        /\ events.hits[1].attackerId = o
        /\ Len(events.removed) = 1
        /\ projectiles = <<>>

\* the ids of the projectiles of a list
IdsOf(projs) == { projs[j].id : j \in 1..Len(projs) }

\* C14: a projectile registers at most one hit in a tick; it leaves the list,
\* reported removed once, in the very tick in which it hits or expires, and
\* stays in the list otherwise; one that expires in a tick (age above the
\* lifetime, or below the floor) deals no damage in it; the ids in the list
\* are distinct and below the id counter; over the whole run an id is
\* reported removed exactly once, when it leaves the list (so a projectile
\* hits at most once in its life).
C14_OneRemovalPerProjectile ==
    [][ /\ \A j, k \in 1..Len(projectiles') :
             /\ projectiles'[j].id < projectileIdCounter'
             /\ j # k => projectiles'[j].id # projectiles'[k].id
        /\ \A id \in ProjectileIds :
             /\ removedCount'[id] <= 1
             /\ id \in IdsOf(projectiles')
                   => /\ removedCount'[id] = 0
                      /\ \/ id \in IdsOf(projectiles)
                         \/ (lastOp'.kind = "shoot" /\ id = projectileIdCounter)
             /\ (id \in IdsOf(projectiles) /\ id \notin IdsOf(projectiles'))
                   => (IsTick /\ removedCount[id] = 0 /\ removedCount'[id] = 1
                       /\ CountOf(events'.removed, id) = 1)
             /\ id \notin IdsOf(projectiles) => removedCount'[id] = removedCount[id]
        /\ IsTick =>
             /\ FilterBefore(Len(projectiles) + 1).removed = events'.removed
             /\ FilterBefore(Len(projectiles) + 1).kept = projectiles'
             /\ \A i \in 1..Len(projectiles) :
                  LET b == FilterBefore(i)
                      a == FilterAfter(i)
                      p == Moved(i)
                      hit == Len(a.hits) > Len(b.hits)
                  IN /\ Len(a.hits) <= Len(b.hits) + 1
                     /\ (hit \/ PastLifetimeOrFloor(p))
                           => (p.id \notin IdsOf(projectiles')
                               /\ CountOf(events'.removed, p.id) = 1)
                     /\ ~(hit \/ PastLifetimeOrFloor(p))
                           => (CountOf(projectiles', p) = 1
                               /\ CountOf(events'.removed, p.id) = 0)
                     /\ PastLifetimeOrFloor(p)
                           => (a.players = b.players /\ a.hits = b.hits
                               /\ a.deaths = b.deaths /\ a.timers = b.timers) ]_vars

\* both projectiles of the run are gone, each reported once: one hit a player,
\* the other has just expired in a tick without a hit
C14_Witness ==
    /\ lastOp = Op("tick", 0)
    /\ projectileIdCounter = 2
    /\ projectiles = <<>>
    /\ removedCount[0] = 1 /\ removedCount[1] = 1
    /\ Len(events.removed) = 1
    /\ events.hits = <<>>
    /\ \E q \in DOMAIN players : players[q].health = 90

\* events of a list that name a player under a field
EventsFor(list, field, q) == { i \in 1..Len(list) : list[i][field] = q }

\* C15: no hit event names as target the projectile's owner, or a player whose
\* health was already 0 when the projectile was handled, also when an earlier
\* projectile of the same tick has just killed that player.
C15_NoHitOnOwnerOrDead ==
    [][ IsTick =>
        /\ FilterBefore(Len(projectiles) + 1).hits = events'.hits
        /\ \A i \in 1..Len(projectiles) :
             LET b == FilterBefore(i)
                 a == FilterAfter(i)
             IN /\ SubSeq(a.hits, 1, Len(b.hits)) = b.hits
                /\ \A k \in (Len(b.hits) + 1)..Len(a.hits) :
                      /\ a.hits[k].attackerId = projectiles[i].ownerId
                      /\ a.hits[k].targetId # projectiles[i].ownerId
                      /\ a.hits[k].targetId \in DOMAIN b.players
                      /\ b.players[a.hits[k].targetId].health > 0 ]_vars

\* two projectiles reached the same player in one tick: the first killed it,
\* the second registered nothing and flies on from inside its hitbox
C15_Witness ==
    \E q \in DOMAIN players :
        /\ lastOp = Op("tick", 0)
        /\ players[q].health = 0
        /\ Len(events.hits) = 1 /\ events.hits[1].targetId = q
        /\ Len(events.deaths) = 1
        /\ Len(projectiles) = 1
        /\ projectiles[1].ownerId # q
        /\ InHitbox(projectiles[1], players[q])

\* C16: a player's health reaches 0 only in a tick, which then emits exactly
\* one death event for it and schedules exactly one respawn timer for it,
\* due RESPAWN_TIME later; a step in which that does not happen emits no death
\* event and schedules no respawn timer for the player; a dead player always
\* has exactly one respawn timer pending.
C16_OneDeathOneRespawn ==
    [][ \A q \in DOMAIN players \cap DOMAIN players' :
          LET died == players[q].health > 0 /\ players'[q].health <= 0
              scheduled == { tm \in timers' \ timers : tm.kind = "respawn" /\ tm.id = q }
              pending == { tm \in timers' : tm.kind = "respawn" /\ tm.id = q }
          IN /\ died => /\ IsTick
                         /\ Cardinality(EventsFor(events'.deaths, "victimId", q)) = 1
                         /\ Cardinality(scheduled) = 1
                         /\ \A tm \in scheduled : tm.due = now' + 3000
             /\ ~died => /\ EventsFor(events'.deaths, "victimId", q) = {}
                          /\ scheduled = {}
             /\ players'[q].health = 0 => Cardinality(pending) = 1 ]_vars

\* a projectile has reached a player that died in an earlier tick and waits
\* for its respawn: no death event, still the one respawn timer
C16_Witness ==
    \E q \in DOMAIN players :
        /\ lastOp = Op("tick", 0)
        /\ players[q].health = 0 /\ players[q].deaths = 1
        /\ events.deaths = <<>> /\ events.hits = <<>>
        /\ \E j \in 1..Len(projectiles) :
              projectiles[j].ownerId # q /\ InHitbox(projectiles[j], players[q])
        /\ Cardinality({ tm \in timers : tm.kind = "respawn" /\ tm.id = q }) = 1

\* C17: kills and deaths change only in a tick, and there only when a hit takes
\* its target's health to 0: the target's deaths grow by exactly 1 and its
\* reloading flag is false afterwards; the kills of the projectile's owner grow
\* by exactly 1 if the owner is in the player map (alive or dead) and is not the
\* victim; no other kills or deaths counter changes.
C17_LethalHitCounters ==
    [][ /\ ~IsTick => \A q \in DOMAIN players \cap DOMAIN players' :
                         /\ players'[q].kills = players[q].kills
                         /\ players'[q].deaths = players[q].deaths
        /\ IsTick =>
             /\ FilterBefore(Len(projectiles) + 1).players = players'
             /\ \A i \in 1..Len(projectiles) :
                  LET b == FilterBefore(i).players
                      a == FilterAfter(i).players
                      o == projectiles[i].ownerId
                      victims == { q \in DOMAIN b : b[q].health > 0 /\ a[q].health <= 0 }
                  IN /\ DOMAIN a = DOMAIN b
                     /\ Cardinality(victims) <= 1
                     /\ \A q \in DOMAIN b :
                          /\ a[q].deaths = b[q].deaths + (IF q \in victims THEN 1 ELSE 0)
                          /\ a[q].kills = b[q].kills
                                + (IF q = o /\ victims # {} /\ q \notin victims THEN 1 ELSE 0)
                          /\ q \in victims => (a[q].health = 0 /\ ~a[q].reloading) ]_vars

\* a player killed earlier has been credited the kill its projectile made
\* after its own death
C17_Witness ==
    \E o, q \in DOMAIN players :
        /\ o # q
        /\ lastOp = Op("tick", 0)
        /\ players[o].health = 0 /\ players[o].deaths = 1 /\ players[o].kills = 1
        /\ players[q].health = 0 /\ players[q].deaths = 1
        /\ Len(events.deaths) = 1
        /\ events.deaths[1].victimId = q /\ events.deaths[1].attackerId = o

\* C18 as claimed: the hit of a projectile whose owner has left the player map
\* carries the attacker name "unknown".
C18_OwnerGoneNamedLowercase ==
    [][ IsTick =>
        \A i \in 1..Len(projectiles) :
            LET b == FilterBefore(i)
                a == FilterAfter(i)
            IN (projectiles[i].ownerId \notin DOMAIN players /\ Len(a.hits) > Len(b.hits))
               => a.hits[Len(a.hits)].attackerName = <<"unknown">> ]_vars

\* C18 amended: when the owner of a projectile has left the player map, a hit
\* of that projectile is resolved in full (damage of 10, projectile removed,
\* a hit event, and a death event and respawn timer if lethal) with the
\* attacker name "Unknown", no kills counter changes, and the close or error
\* of a socket leaves the projectile list as it is.
C18_OwnerGone ==
    [][ /\ lastOp'.kind \in {"close", "error"} => projectiles' = projectiles
        /\ IsTick =>
             \A i \in 1..Len(projectiles) :
                LET b == FilterBefore(i)
                    a == FilterAfter(i)
                    p == Moved(i)
                IN (/\ p.ownerId \notin DOMAIN players
                    /\ ~PastLifetimeOrFloor(p)
                    /\ TargetsOf(p, b.players) # {})
                   => \E q \in TargetsOf(p, b.players) :
                         LET hit == a.hits[Len(a.hits)]
                             lethal == b.players[q].health <= 10
                         IN /\ Len(a.hits) = Len(b.hits) + 1
                            /\ hit.targetId = q
                            /\ hit.attackerId = p.ownerId
                            /\ hit.attackerName = <<"Unknown">>
                            /\ a.players[q].health = b.players[q].health - 10
                            /\ a.removed = Append(b.removed, p.id)
                            /\ p.id \notin IdsOf(projectiles')
                            /\ \A r \in DOMAIN b.players : a.players[r].kills = b.players[r].kills
                            /\ IF lethal
                               THEN /\ Len(a.deaths) = Len(b.deaths) + 1
                                    /\ a.deaths[Len(a.deaths)].victimId = q
                                    /\ a.deaths[Len(a.deaths)].attackerId = p.ownerId
                                    /\ a.deaths[Len(a.deaths)].attackerName = <<"Unknown">>
                                    /\ a.players[q].deaths = b.players[q].deaths + 1
                                    /\ \E tm \in a.timers \ b.timers :
                                          tm.kind = "respawn" /\ tm.id = q
                               ELSE a.deaths = b.deaths ]_vars

\* a projectile whose owner had disconnected has just killed a player: hit and
\* death events with the attacker name "Unknown", nobody credited
C18_Witness ==
    \E q \in DOMAIN players, o \in Ids \ DOMAIN players :
        /\ lastOp = Op("tick", 0)
        /\ sock[o] = "CLOSED"
        /\ players[q].health = 0 /\ players[q].deaths = 1
        /\ Len(events.hits) = 1 /\ events.hits[1].attackerId = o
        /\ events.hits[1].attackerName = <<"Unknown">>
        /\ Len(events.deaths) = 1 /\ events.deaths[1].attackerName = <<"Unknown">>
        /\ \A r \in DOMAIN players : players[r].kills = 0

\* C19: when the respawn timer fires for a player that is in the map and dead,
\* the player gets health 100, magazine 30, reserve 100, reloading false, a
\* spawn position and the current time as activity timestamp; its kills and
\* deaths and every other player stay as they are; player_respawned with the
\* id, the new position, health, magazine and reserve goes once to every open
\* session of the connection map and nothing else is sent.
C19_Respawn ==
    [][ \A q \in DOMAIN players :
          (lastOp' = Op("respawn_timer", q) /\ players[q].health <= 0)
          => LET pl == players'[q]
                 payload == [id |-> q, x |-> pl.x, y |-> pl.y, z |-> pl.z,
                             health |-> 100, magazine |-> 30, ammo |-> 100]
             IN /\ DOMAIN players' = DOMAIN players
                /\ pl.health = 100 /\ pl.magazine = 30 /\ pl.ammo = 100
                /\ ~pl.reloading
                /\ pl.lastUpdateTime = now
                /\ pl.kills = players[q].kills /\ pl.deaths = players[q].deaths
                /\ \E spawn \in Spawns :
                      pl.x = spawn.x.v /\ pl.y = spawn.y.v /\ pl.z = spawn.z.v
                /\ pl = [players[q] EXCEPT !.x = pl.x, !.y = pl.y, !.z = pl.z,
                                            !.health = 100, !.magazine = 30, !.ammo = 100,
                                            !.reloading = FALSE, !.lastUpdateTime = now]
                /\ \A r \in DOMAIN players \ {q} : players'[r] = players[r]
                /\ \A c \in Ids :
                      CountSent(sent', "player_respawned", c)
                         = IF c \in clientMap /\ sock[c] = "OPEN" THEN 1 ELSE 0
                /\ \A i \in 1..Len(sent') :
                      sent'[i].type = "player_respawned" /\ sent'[i].payload = payload ]_vars

\* a dead player has just respawned, and another session was told so
C19_Witness ==
    \E q, c \in DOMAIN players :
        /\ c # q
        /\ lastOp = Op("respawn_timer", q)
        /\ players[q].health = 100 /\ players[q].deaths = 1
        /\ players[q].lastUpdateTime = now
        /\ now > 0
        /\ CountSent(sent, "player_respawned", c) = 1
        /\ CountSent(sent, "player_respawned", q) = 1

\* C20: a respawn timer that fires for a player that has disconnected, or
\* whose health is above 0, changes no state and sends nothing; an id that has
\* left the player map is never in it again.
C20_StaleRespawnIsNoOp ==
    [][ /\ \A id \in Ids :
             (/\ lastOp' = Op("respawn_timer", id)
              /\ \/ leftCount[id] > 0
                 \/ id \notin DOMAIN players
                 \/ players[id].health > 0)
             => (/\ players' = players
                 /\ projectiles' = projectiles
                 /\ clientMap' = clientMap
                 /\ sock' = sock
                 /\ sent' = <<>>)
        /\ \A id \in Ids :
             (sock[id] # "NONE" /\ id \notin DOMAIN players) => id \notin DOMAIN players' ]_vars

\* the respawn timer of a player that died and then disconnected has just
\* fired: the player is not in the map
C20_Witness ==
    \E id \in Ids :
        /\ lastOp = Op("respawn_timer", id)
        /\ leftCount[id] > 0
        /\ sock[id] = "CLOSED"
        /\ id \notin DOMAIN players

\* C21: a player whose health is 0 is eventually back at health 100, unless it
\* leaves the player map first (stated for deaths whose respawn delay ends
\* before the clock of the run stops).
C21_DeadEventuallyRespawns ==
    \A q \in Ids :
        (q \in DOMAIN players /\ players[q].health = 0 /\ now + RESPAWN_TIME <= horizon)
        ~> (q \notin DOMAIN players \/ players[q].health = 100)

\* a player that died is alive again at health 100, still connected, no
\* respawn pending
C21_Witness ==
    \E q \in DOMAIN players :
        /\ players[q].deaths = 1
        /\ players[q].health = 100
        /\ sock[q] = "OPEN"
        /\ \A tm \in timers : tm.kind # "respawn"

\* ------------------------------------------------------- command handling
PlayerCommands == {"player_update", "shoot", "request_reload"}

\* C22: a player_update, shoot or request_reload from a player whose health is
\* 0 changes that player's activity timestamp and nothing else: no other field
\* of it, no other player, no projectile, no timer, no connection, and it
\* sends no message.
C22_DeadCommandsDiscarded ==
    [][ \A p \in DOMAIN players :
          (players[p].health = 0 /\ lastOp'.id = p /\ lastOp'.kind \in PlayerCommands)
          => /\ DOMAIN players' = DOMAIN players
             /\ SameButActivity(players'[p], players[p])
             /\ players'[p].lastUpdateTime = now
             /\ \A q \in DOMAIN players \ {p} : players'[q] = players[q]
             /\ projectiles' = projectiles
             /\ projectileIdCounter' = projectileIdCounter
             /\ timers' = timers
             /\ clientMap' = clientMap /\ sock' = sock
             /\ sent' = <<>> ]_vars

\* a dead player with rounds in a magazine that is not reloading has just sent
\* a shoot, and there is no projectile of it
C22_Witness ==
    \E p \in DOMAIN players :
        /\ lastOp = Op("shoot", p)
        /\ players[p].health = 0
        /\ players[p].magazine > 0 /\ ~players[p].reloading
        /\ \A i \in 1..Len(projectiles) : projectiles[i].ownerId # p

\* the record apart from position, orientation and activity timestamp
SameButPose(pl1, pl0) ==
    pl1 = [pl0 EXCEPT !.x = pl1.x, !.y = pl1.y, !.z = pl1.z,
                      !.pitch = pl1.pitch, !.yaw = pl1.yaw,
                      !.lastUpdateTime = pl1.lastUpdateTime]

SamePose(pl1, pl0) ==
    /\ pl1.x = pl0.x /\ pl1.y = pl0.y /\ pl1.z = pl0.z
    /\ pl1.pitch = pl0.pitch /\ pl1.yaw = pl0.yaw

\* a player_update whose payload, position or rotation is not what the
\* validation accepts
InvalidUpdatePayload(data) ==
    \/ data.payload.kind # "object"
    \/ data.payload.position \in BadVectors
    \/ data.payload.rotation \in BadRotations

\* C23: a player_update from a live player leaves everything but that
\* player's position, orientation and activity timestamp unchanged; with a
\* payload that fails validation it leaves position and orientation unchanged
\* too and does not touch the connection, and with a valid one it stores the
\* payload's values.
C23_UpdateFrame ==
    [][ \A p \in DOMAIN players, data \in UpdateCommands :
          (players[p].health > 0 /\ OnMessage(p, data))
          => /\ DOMAIN players' = DOMAIN players
             /\ SameButPose(players'[p], players[p])
             /\ players'[p].lastUpdateTime = now
             /\ \A q \in DOMAIN players \ {p} : players'[q] = players[q]
             /\ projectiles' = projectiles
             /\ projectileIdCounter' = projectileIdCounter
             /\ timers' = timers
             /\ clientMap' = clientMap /\ sock' = sock
             /\ IF InvalidUpdatePayload(data)
                THEN SamePose(players'[p], players[p])
                ELSE /\ players'[p].x = data.payload.position.x.v
                     /\ players'[p].y = data.payload.position.y.v
                     /\ players'[p].z = data.payload.position.z.v
                     /\ players'[p].pitch = data.payload.rotation.pitch.v
                     /\ players'[p].yaw = data.payload.rotation.yaw.v ]_vars

\* a live player has just sent a player_update and still has the orientation
\* it was created with: the update was dropped, and its socket is open
C23_Witness ==
    \E p \in DOMAIN players :
        /\ lastOp = Op("player_update", p)
        /\ players[p].health > 0
        /\ players[p].lastUpdateTime = now
        /\ players[p].pitch = 0 /\ players[p].yaw = 0
        /\ sock[p] = "OPEN"

\* C24: a message on a connection whose player handleDisconnect has already
\* removed changes no player, projectile, timer or connection state and sends
\* nothing.
C24_CommandAfterRemoval ==
    [][ \A p \in Ids :
          (leftCount[p] > 0 /\ lastOp'.id = p
             /\ lastOp'.kind \in PlayerCommands \cup {"chat_message", "unparsable"})
          => /\ p \notin DOMAIN players
             /\ players' = players
             /\ projectiles' = projectiles
             /\ projectileIdCounter' = projectileIdCounter
             /\ timers' = timers
             /\ clientMap' = clientMap /\ sock' = sock
             /\ sent' = <<>> ]_vars

\* after a transport error and before the close, the removed player's
\* connection has just delivered a shoot
C24_Witness ==
    \E p \in Ids :
        /\ lastOp = Op("shoot", p)
        /\ leftCount[p] = 1
        /\ sock[p] = "CLOSING"
        /\ p \notin DOMAIN players
        /\ projectileIdCounter = 0

\* --------------------------------------------------------------- sessions
\* C25: at a close or error event of a player's socket (a close follows the
\* terminate() of the inactivity sweep as it follows a client's own close),
\* whatever the player's health and reloading flag, its record and its
\* connection mapping are gone afterwards, and the other players, the other
\* mappings and the projectile list are as before.
C25_DisconnectRemoves ==
    [][ \A p \in Ids :
          lastOp' \in {Op("close", p), Op("error", p)}
          => /\ DOMAIN players' = DOMAIN players \ {p}
             /\ clientMap' = clientMap \ {p}
             /\ \A q \in DOMAIN players' : players'[q] = players[q]
             /\ projectiles' = projectiles ]_vars

\* the socket of a player silent for more than the inactivity timeout, which
\* the sweep terminated, has closed: the player and its mapping are gone while
\* another player remains
C25_Witness ==
    \E p \in Ids :
        /\ lastOp = Op("close", p)
        /\ leftCount[p] = 1
        /\ now - lastCommandTime[p] > INACTIVITY_TIMEOUT
        /\ p \notin DOMAIN players /\ p \notin clientMap
        /\ DOMAIN players # {}

\* C26: between callbacks the ids of the player map are the ids of the
\* connection map, and every mapped socket is one whose close event has not
\* come; so no tick's sweep takes the branch for a player without a
\* connection, which would call handleDisconnect.
C26_PlayersMatchConnections ==
    /\ [](/\ DOMAIN players = clientMap
          /\ \A c \in clientMap : sock[c] \in {"OPEN", "CLOSING"})
    /\ [][IsTick => leftCount' = leftCount]_vars

\* after one player has been removed, a tick's sweep has terminated the
\* socket of an inactive player, which is still in both maps
C26_Witness ==
    /\ lastOp = Op("tick", 0)
    /\ \E p \in Ids : leftCount[p] > 0
    /\ \E c \in clientMap : sock[c] = "CLOSING" /\ c \in DOMAIN players
    /\ DOMAIN players = clientMap

\* ------------------------------------------------------------- game_state
\* the game_state messages among those a callback sent
GameStates(out) == { i \in 1..Len(out) : out[i].type = "game_state" }

\* C27: a tick sends exactly one game_state to every session that is in the
\* connection map with an open socket (and whose send does not throw) and none
\* to any other; each carries all the players as they are after the tick and
\* the tick's hits, deaths and removed projectile ids.
C27_GameStateEveryTick ==
    [][ IsTick =>
          /\ \A c \in Ids :
                CountSent(sent', "game_state", c) =
                    IF c \in clientMap /\ sock[c] = "OPEN" /\ c \notin events'.failed
                    THEN 1 ELSE 0
          /\ \A i \in GameStates(sent') :
                sent'[i].payload = [players |-> players',
                                    hits |-> events'.hits,
                                    deaths |-> events'.deaths,
                                    removedProjectiles |-> events'.removed] ]_vars

\* a tick without any hit, death or removal has sent the snapshot of both
\* players to both sessions
C27_Witness ==
    /\ lastOp = Op("tick", 0)
    /\ events = NoEvents
    /\ Cardinality(DOMAIN players) = 2
    /\ \A c \in DOMAIN players : CountSent(sent, "game_state", c) = 1
    /\ \A i \in GameStates(sent) : sent[i].payload.players = players

\* the clock values of a run
Ticks == { k * Quantum : k \in 0..(MaxTime \div Quantum) }

\* C28: when the send to one session throws during a tick's broadcast, every
\* other session of the connection map with an open socket still gets its
\* game_state, the sweep of that tick still terminates every inactive
\* player's socket and the tick completes; and a later tick follows as long
\* as the clock of the run goes on.
C28_SendFailureIsContained ==
    /\ [][ (IsTick /\ events'.failed # {}) =>
             /\ \A c \in clientMap :
                   (sock[c] = "OPEN" /\ c \notin events'.failed)
                   => CountSent(sent', "game_state", c) = 1
             /\ \A c \in events'.failed : CountSent(sent', "game_state", c) = 0
             /\ \A q \in DOMAIN players' :
                   Inactive(players'[q], now') => sock'[q] # "OPEN"
             /\ lastTickTime' = now' ]_vars
    /\ \A t \in Ticks :
          (lastOp = Op("tick", 0) /\ events.failed # {} /\ now = t /\ now < horizon)
          ~> (lastOp = Op("tick", 0) /\ now > t)

\* the send to the first session has thrown in a tick; the second session,
\* behind it in the connection map, has its game_state, and the sweep of the
\* same tick has terminated its socket for inactivity
C28_Witness ==
    /\ lastOp = Op("tick", 0)
    /\ events.failed = {1}
    /\ CountSent(sent, "game_state", 1) = 0
    /\ CountSent(sent, "game_state", 2) = 1
    /\ 2 \in DOMAIN players /\ Inactive(players[2], now) /\ sock[2] = "CLOSING"
    /\ lastTickTime = now

\* C29: a connection creates a player with health 100, magazine 30, ammo 100,
\* not reloading, no kills and no deaths; it sends one init, to the new
\* session, whose snapshot is the player map with the new player in it, and
\* one player_joined for the new player to every other session of the
\* connection map with an open socket, none to the new session.
C29_NewConnection ==
    [][ \A id \in Ids :
          lastOp' = Op("connection", id)
          => /\ id \notin DOMAIN players
             /\ DOMAIN players' = DOMAIN players \cup {id}
             /\ players'[id].health = 100
             /\ players'[id].magazine = 30
             /\ players'[id].ammo = 100
             /\ ~players'[id].reloading
             /\ players'[id].kills = 0 /\ players'[id].deaths = 0
             /\ \A c \in Ids : CountSent(sent', "init", c) = IF c = id THEN 1 ELSE 0
             /\ \A c \in Ids :
                   CountSent(sent', "player_joined", c) =
                       IF c # id /\ c \in clientMap /\ sock[c] = "OPEN" THEN 1 ELSE 0
             /\ \A i \in 1..Len(sent') :
                   /\ sent'[i].type = "init"
                        => /\ sent'[i].payload.id = id
                           /\ sent'[i].payload.players = players'
                           /\ id \in DOMAIN sent'[i].payload.players
                   /\ sent'[i].type = "player_joined"
                        => sent'[i].payload = players'[id] ]_vars

\* the second connection: its session has its init, the first session has
\* the player_joined
C29_Witness ==
    /\ lastOp = Op("connection", 2)
    /\ players[2].health = 100 /\ players[2].magazine = 30 /\ players[2].ammo = 100
    /\ CountSent(sent, "init", 2) = 1
    /\ CountSent(sent, "player_joined", 1) = 1
    /\ CountSent(sent, "player_joined", 2) = 0

Max(a, b) == IF a > b THEN a ELSE b

\* C30: every game_state of a tick carries the hits, deaths and removed ids
\* the tick's whole pass over the projectiles produced, and the players as
\* that pass left them: each hit already taken off the target's health, each
\* victim at health 0, not reloading and with its death counted, each kill
\* counted.  The snapshot is the player map the tick ends with and no command
\* was received nor timer run in between; a session whose socket the sweep of
\* the tick terminated was still sent the tick's game_state before.
C30_BroadcastAfterPhysics ==
    [][ IsTick =>
          LET st == FilterBefore(Len(projectiles) + 1)
          IN /\ \A i \in GameStates(sent') :
                  LET gs == sent'[i].payload
                  IN /\ gs.hits = st.hits /\ gs.hits = events'.hits
                     /\ gs.deaths = st.deaths /\ gs.deaths = events'.deaths
                     /\ gs.removedProjectiles = st.removed
                     /\ gs.removedProjectiles = events'.removed
                     /\ gs.players = st.players /\ gs.players = players'
                     /\ DOMAIN gs.players = DOMAIN players
                     /\ \A q \in DOMAIN players :
                           LET hits == EventsFor(gs.hits, "targetId", q)
                               died == EventsFor(gs.deaths, "victimId", q)
                               won == { k \in EventsFor(gs.deaths, "attackerId", q) :
                                          gs.deaths[k].victimId # q }
                           IN /\ gs.players[q].health =
                                    Max(0, players[q].health
                                             - PROJECTILE_DAMAGE * Cardinality(hits))
                              /\ gs.players[q].deaths =
                                    players[q].deaths + Cardinality(died)
                              /\ gs.players[q].kills =
                                    players[q].kills + Cardinality(won)
                              /\ died # {} => /\ gs.players[q].health = 0
                                              /\ ~gs.players[q].reloading
             /\ received' = received
             /\ timers \subseteq timers'
             /\ \A c \in clientMap :
                  (sock[c] = "OPEN" /\ sock'[c] = "CLOSING" /\ c \notin events'.failed)
                  => CountSent(sent', "game_state", c) = 1 ]_vars

\* a tick in which a player was killed has sent a game_state with the death,
\* in whose snapshot the victim has health 0 and the killer has the kill
C30_Witness ==
    /\ lastOp = Op("tick", 0)
    /\ events.deaths # <<>>
    /\ GameStates(sent) # {}
    /\ \A i \in GameStates(sent) :
          LET gs == sent[i].payload
          IN /\ gs.deaths = events.deaths
             /\ gs.players[gs.deaths[1].victimId].health = 0
             /\ gs.deaths[1].attackerId \in DOMAIN gs.players
             /\ gs.players[gs.deaths[1].attackerId].kills = 1

\* ------------------------------------------------------------ projectiles
\* the projectile of the list with an id
WithId(projs, id) == { j \in 1..Len(projs) : projs[j].id = id }

\* C31: a projectile of the list whose lifetime ends while the clock of the
\* run still goes on is eventually out of the list; no projectile is in the
\* list after a tick at which its age is above the lifetime; the id of a
\* projectile a tick takes out of the list is once in the removedProjectiles
\* of every game_state of that tick; and a projectile that a tick finds
\* neither expired nor hitting is in the list after it, where the tick moved
\* it.
C31_ProjectilesEnd ==
    /\ \A id \in ProjectileIds :
          (\E j \in WithId(projectiles, id) :
              projectiles[j].spawnTime + PROJECTILE_LIFETIME + Quantum <= horizon)
          ~> (WithId(projectiles, id) = {})
    /\ [][ IsTick =>
             \A i \in 1..Len(projectiles) :
                LET p == projectiles[i]
                    hit == Len(FilterAfter(i).hits) > Len(FilterBefore(i).hits)
                    gone == WithId(projectiles', p.id) = {}
                IN /\ now' - p.spawnTime > PROJECTILE_LIFETIME => gone
                   /\ gone => /\ CountOf(events'.removed, p.id) = 1
                              /\ \A k \in GameStates(sent') :
                                    CountOf(sent'[k].payload.removedProjectiles, p.id) = 1
                   /\ ~(hit \/ PastLifetimeOrFloor(Moved(i)))
                         => CountOf(projectiles', Moved(i)) = 1 ]_vars

\* a projectile that hit nobody has just expired in a tick, and the tick's
\* game_state reports its id
C31_Witness ==
    /\ lastOp = Op("tick", 0)
    /\ events.hits = <<>>
    /\ Len(events.removed) = 1
    /\ WithId(projectiles, events.removed[1]) = {}
    /\ GameStates(sent) # {}
    /\ \A k \in GameStates(sent) : sent[k].payload.removedProjectiles = events.removed

\* the least id of a nonempty set: the one that joined first
FirstJoined(S) == CHOOSE q \in S : \A r \in S : q <= r

\* the first of a set of ids in the order of for (const id in players)
FirstInKeyOrder(S) ==
    IF S \cap indexed # {} THEN FirstJoined(S \cap indexed) ELSE FirstJoined(S)

\* C32: at a tick, a projectile that has not expired and is inside the hitbox
\* of several live players other than its owner damages the one of them that
\* joined first, and no other player's health changes.
C32_FirstInJoinOrderIsHit ==
    [][ IsTick =>
          \A i \in 1..Len(projectiles) :
             LET b == FilterBefore(i)
                 a == FilterAfter(i)
                 T == TargetsOf(Moved(i), b.players)
             IN (~PastLifetimeOrFloor(Moved(i)) /\ Cardinality(T) >= 2)
                => /\ a.players[FirstJoined(T)].health < b.players[FirstJoined(T)].health
                   /\ \A r \in DOMAIN b.players \ {FirstJoined(T)} :
                         a.players[r].health = b.players[r].health ]_vars

\* What holds instead: the one damaged is the first in the key order of the
\* players object, in which an id that is an array index precedes the others.
C32_FirstInKeyOrderIsHit ==
    [][ IsTick =>
          \A i \in 1..Len(projectiles) :
             LET b == FilterBefore(i)
                 a == FilterAfter(i)
                 T == TargetsOf(Moved(i), b.players)
             IN (~PastLifetimeOrFloor(Moved(i)) /\ Cardinality(T) >= 2)
                => /\ a.players[FirstInKeyOrder(T)].health
                         < b.players[FirstInKeyOrder(T)].health
                   /\ \A r \in DOMAIN b.players \ {FirstInKeyOrder(T)} :
                         a.players[r].health = b.players[r].health ]_vars

\* the shot reached two players standing together: the second to join, whose
\* id is an array index, was hit and died, and the first is at full health
C32_Witness ==
    /\ lastOp = Op("tick", 0)
    /\ indexed = {2}
    /\ Len(events.hits) = 1 /\ events.hits[1].targetId = 2
    /\ DOMAIN players = {1, 2}
    /\ players[2].health = 0 /\ players[1].health = START_HEALTH
    /\ players[1].x = players[2].x /\ players[1].z = players[2].z

\* ---------------------------------------------------------------- hit test
\* the two tests of the claim, in tenths of a unit: |dy| < 1.1 and
\* dx*dx + dz*dz < 0.36
WithinBody(p, target) ==
    /\ Abs(p.y - target.y) < 11
    /\ (p.x - target.x) * (p.x - target.x) + (p.z - target.z) * (p.z - target.z) < 36

\* C33: at a tick, a projectile that has not expired registers a hit only on
\* a player for which, where the tick has moved the projectile, the vertical
\* distance is below 1.1 and the squared planar distance below 0.36; and it
\* does register a hit when some live player other than its owner passes
\* both tests.
C33_HitTest ==
    [][ IsTick =>
          \A i \in 1..Len(projectiles) :
             LET b == FilterBefore(i)
                 a == FilterAfter(i)
                 p == Moved(i)
                 hit == Len(a.hits) > Len(b.hits)
             IN ~PastLifetimeOrFloor(p)
                => /\ hit => WithinBody(p, b.players[a.hits[Len(a.hits)].targetId])
                   /\ \A q \in DOMAIN b.players :
                         (q # p.ownerId /\ b.players[q].health > 0
                            /\ WithinBody(p, b.players[q]))
                         => hit
                   /\ hit <=> p.id \notin IdsOf(projectiles') ]_vars

\* the first tick has carried a projectile to the rim of a player's hitbox
\* (squared planar distance exactly 0.36, same height): no hit, the player is
\* at full health and the projectile flies on
C33_Witness ==
    /\ lastOp = Op("tick", 0)
    /\ now = DuelTime
    /\ events.hits = <<>>
    /\ \E j \in 1..Len(projectiles), q \in DOMAIN players :
          /\ projectiles[j].y = players[q].y
          /\ (projectiles[j].x - players[q].x) * (projectiles[j].x - players[q].x)
               + (projectiles[j].z - players[q].z) * (projectiles[j].z - players[q].z) = 36
          /\ players[q].health = START_HEALTH

\* ------------------------------------------------------------- integration
\* C34: a tick moves every projectile it keeps by velocity times the time
\* since the previous tick, the time taken as 0.1 s when it is longer (so by
\* at most velocity x 0.1 along each axis); and takes out of the list every
\* projectile spawned more than the lifetime before the tick, however little
\* it has been moved.
C34_ClampedStep ==
    [][ IsTick =>
          LET gap == now' - lastTickTime
              dt == IF gap > 100 THEN 100 ELSE gap
          IN \A i \in 1..Len(projectiles) :
                LET p == projectiles[i]
                    after == WithId(projectiles', p.id)
                IN /\ \A j \in after :
                        /\ projectiles'[j].x = p.x + (p.vx * dt) \div 100
                        /\ projectiles'[j].y = p.y + (p.vy * dt) \div 100
                        /\ projectiles'[j].z = p.z + (p.vz * dt) \div 100
                        /\ Abs(projectiles'[j].x - p.x) <= Abs(p.vx)
                        /\ Abs(projectiles'[j].y - p.y) <= Abs(p.vy)
                        /\ Abs(projectiles'[j].z - p.z) <= Abs(p.vz)
                   /\ now' - p.spawnTime > PROJECTILE_LIFETIME => after = {}
                   /\ (after = {} /\ events'.hits = <<>> /\ Moved(i).y >= FLOOR_Y)
                        => now' - p.spawnTime > PROJECTILE_LIFETIME ]_vars

\* after one tick that came a full second late the projectile is 5 units
\* from where it started, not 50
C34_Witness ==
    /\ lastOp = Op("tick", 0)
    /\ now = Quantum
    /\ \E j \in 1..Len(projectiles) :
          /\ projectiles[j].spawnTime = 0
          /\ projectiles[j].vx = PROJECTILE_SPEED
          /\ projectiles[j].x = P0.x.v + PROJECTILE_SPEED

\* ------------------------------------------------------------------ health
\* C35: between callbacks every health is a multiple of 10; a player's health
\* changes only at a tick, by 10 for each hit event of the tick on it, and at
\* its respawn, to 100; and at a tick every hit event's newHealth, which is
\* taken before the clamp to 0, is not negative and is the health the target
\* has when the projectile has been handled.
C35_NewHealthIsStoredHealth ==
    /\ [](\A q \in DOMAIN players : players[q].health % 10 = 0)
    /\ [][ /\ \A q \in DOMAIN players \cap DOMAIN players' :
                players'[q].health # players[q].health
                => \/ /\ IsTick
                      /\ players'[q].health = players[q].health
                            - 10 * Cardinality(EventsFor(events'.hits, "targetId", q))
                   \/ /\ lastOp' = Op("respawn_timer", q)
                      /\ players'[q].health = 100
           /\ IsTick =>
                \A i \in 1..Len(projectiles) :
                   LET b == FilterBefore(i)
                       a == FilterAfter(i)
                   IN Len(a.hits) > Len(b.hits)
                      => LET hit == a.hits[Len(a.hits)]
                         IN /\ hit.newHealth >= 0
                            /\ hit.newHealth = a.players[hit.targetId].health
                            /\ hit.newHealth = b.players[hit.targetId].health - 10
                            /\ \E k \in 1..Len(events'.hits) : events'.hits[k] = hit ]_vars

\* a tick has just registered the hit that killed a player: the event's
\* newHealth is 0, the health the player has
C35_Witness ==
    /\ lastOp = Op("tick", 0)
    /\ events.deaths # <<>>
    /\ \E k \in 1..Len(events.hits) :
          /\ events.hits[k].newHealth = 0
          /\ events.hits[k].targetId \in DOMAIN players
          /\ players[events.hits[k].targetId].health = 0

\* ------------------------------------------------------------------ reload
\* the pending completion callbacks of a player's reload in progress
ReloadPending(p) ==
    { t \in timers : /\ t.kind = "reload" /\ t.id = p
                     /\ t.due = players[p].reloadStartTime + RELOAD_DURATION
                     /\ t.due >= now
                     /\ ReloadStillValid(players, t) }

\* C36: between callbacks, for every player whose reloading flag is true the
\* completion callback of that reload, which will clear the flag, is pending;
\* and a player that is reloading is eventually not reloading or not in the
\* player map (stated for reloads that end before the clock of the run
\* stops).
C36_ReloadEnds ==
    /\ [](\A p \in DOMAIN players : players[p].reloading => ReloadPending(p) # {})
    /\ \A p \in Ids :
          (/\ p \in DOMAIN players
           /\ players[p].reloading
           /\ players[p].reloadStartTime + RELOAD_DURATION <= horizon)
          ~> (p \notin DOMAIN players \/ ~players[p].reloading)

\* a reload has just completed: the player that had 5 / 50 has 30 / 25 and is
\* not reloading
C36_Witness ==
    \E p \in DOMAIN players :
        /\ lastOp = Op("reload_timer", p)
        /\ ~players[p].reloading
        /\ players[p].magazine = START_MAGAZINE
        /\ players[p].ammo = 25
        /\ players[p].health > 0

====
